---- MODULE Spec2Model ----
(***************************************************************************)
(* State-machine model of the video analysis tool (src/App.tsx,            *)
(* src/unnamed/part_000 = components/VideoControls, src/components/Modal). *)
(*                                                                         *)
(* Conventions.                                                            *)
(*  - Times are integers counting half seconds (0.5 s = 1, 2 s = 4).       *)
(*  - Playback rates are integers counting quarters (1.0x = 4, 0.5x = 2).  *)
(*  - JavaScript null/undefined is "null" for strings, 0 for ids and       *)
(*    object URLs, NoFile for files; the number NaN is NaN, and the JSON   *)
(*    literal null standing where a number was written is JsonNull.        *)
(*  - React state is modelled by one variable per useState/useRef; a       *)
(*    handler and the re-render that follows it are one step, so every     *)
(*    closure (the delete button, the frame loop, the prompt callback)     *)
(*    reads the state of the current render.                               *)
(*  - The <video> element exists exactly while videoSrc is set (App.tsx    *)
(*    482-506); its fields are the record `video`.                         *)
(***************************************************************************)
EXTENDS Integers, Sequences, FiniteSets

(* --------------------------- bounds ----------------------------------- *)
\* generateId() calls available in one behaviour
MaxIds == 4
\* points a pen stroke may collect
MaxPath == 2
\* drawings the session may hold
MaxDrawings == 1
\* archive loads in flight at once
MaxLoads == 2
\* media duration of the long and of the short test video, in half seconds
LongDur == 5
ShortDur == 2

(* ----------------------- program constants ---------------------------- *)
NaN == -1
JsonNull == -2
\* "Create Auto Clip (2 seconds)": the window added to the start time
ClipWindow == 4
\* Clip.duration, the nominal length in seconds
ClipDuration == 2
\* Clip.speed 0.5
ClipSpeed == 2
\* useState(1.0) for playbackSpeed, and a media element's default playbackRate
DefaultSpeed == 4
\* useState(5) for brushSize
DefaultBrushSize == 5
\* the 0.5 s around the current time in which redrawCanvas shows an item
PaintWindow == 1

JsonEntry == "analysis_data.json"
DefaultVideoName == "video.mp4"
MsgLibMissing == "Erro: Bibliotecas de compressao nao carregadas ou video nao encontrado."
MsgSaved == "Analise salva com sucesso!"
MsgLoaded == "Analise carregada com sucesso!"
MsgNoVideo == "Video principal nao encontrado no arquivo."
MsgCorrupt == "Arquivo de dados corrompido."
MsgInvalidZip == "Arquivo ZIP invalido."
MsgNewAnalysis == "Deseja iniciar uma nova analise? Dados nao salvos serao perdidos."
MsgClearAll == "Limpar todas as anotacoes e clips?"

(* ------------------------- input sets --------------------------------- *)
\* the <option> values of the speed select the user picks from
SpeedOptions == {4, 8}
\* what parseInt yields for the brush size field: a number, or NaN when empty
BrushInputs == {"", "5"}
\* text typed into the point-name prompt ("" = nothing typed)
Names == {"a", "b"}
\* text typed into the notes area
NoteTexts == {"", "n"}
\* normalized pointer positions
Positions == {[x |-> 0, y |-> 0]}
\* video files the user can pick: name and content (a blob id)
NoFile == [name |-> "null", blob |-> 0]
VideoFiles == {[name |-> "a.mp4", blob |-> 1], [name |-> "s.mp4", blob |-> 2]}

\* the media duration the browser finds in a video blob
MediaDuration(blob) == IF blob = 1 THEN LongDur ELSE ShortDur

Min(a, b) == IF a < b THEN a ELSE b

\* JavaScript  a || b  on numbers: b when a is 0, NaN or undefined
OrNum(a, b) == IF a = 0 \/ a = NaN THEN b ELSE a

\* JavaScript  s || d  on strings: d when s is empty, null or undefined
OrStr(s, d) == IF s = "" \/ s = "null" THEN d ELSE s

\* parseInt(e.target.value) of the brush-size field
ParseInt(s) == IF s = "5" THEN 5 ELSE NaN

\* filter of a sequence, order kept
RECURSIVE SelectSeq2(_, _)
SelectSeq2(s, keep) ==
  IF s = <<>> THEN <<>>
  ELSE IF Head(s) \in keep THEN <<Head(s)>> \o SelectSeq2(Tail(s), keep)
       ELSE SelectSeq2(Tail(s), keep)

SeqToSet(s) == {s[i] : i \in 1..Len(s)}

(* ------------------------ the <video> element ------------------------- *)
\* no element: videoRef.current is null
NoVideo == [src |-> 0, currentTime |-> 0, paused |-> TRUE,
            playbackRate |-> DefaultSpeed, duration |-> NaN]

\* a media element that has just been given a source: position 0, paused,
\* default rate, duration NaN until its metadata is loaded
FreshVideo(src) == [src |-> src, currentTime |-> 0, paused |-> TRUE,
                    playbackRate |-> DefaultSpeed, duration |-> NaN]

\* what rendering <video src={videoSrc}> with a new videoSrc does to the element
RenderVideo(src) == IF src = 0 THEN NoVideo ELSE FreshVideo(src)

Ended(v) == v.duration # NaN /\ v.currentTime >= v.duration

\* video.play(): starts playback; a video that has ended restarts at 0
VideoPlay(v) == [v EXCEPT !.paused = FALSE,
                          !.currentTime = IF Ended(v) THEN 0 ELSE @]

\* video.pause()
VideoPause(v) == [v EXCEPT !.paused = TRUE]

\* video.currentTime = t: a seek, clamped to the known duration
VideoSeek(v, t) ==
  [v EXCEPT !.currentTime = IF v.duration # NaN /\ t > v.duration THEN v.duration ELSE t]

(* --------------------------- JSON and zip ----------------------------- *)
\* JSON.stringify of a number: NaN is written as null
JsonNum(n) == IF n = NaN THEN JsonNull ELSE n

JsonPoint(p) == [x |-> JsonNum(p.x), y |-> JsonNum(p.y)]

JsonDrawing(d) == [id |-> d.id, time |-> JsonNum(d.time),
                   points |-> [i \in 1..Len(d.points) |-> JsonPoint(d.points[i])],
                   color |-> d.color, size |-> JsonNum(d.size)]

JsonAnnotation(a) == [id |-> a.id, time |-> JsonNum(a.time), x |-> JsonNum(a.x),
                      y |-> JsonNum(a.y), text |-> a.text, color |-> a.color]

JsonClip(c) == [id |-> c.id, name |-> c.name, startTime |-> JsonNum(c.startTime),
                endTime |-> JsonNum(c.endTime), duration |-> JsonNum(c.duration),
                speed |-> JsonNum(c.speed)]

AllFields == {"notes", "drawings", "annotations", "clips", "primaryVideoFileName"}

\* a text that JSON.parse rejects (also: the bytes of a video read as a string)
NotJson == [parses |-> FALSE, has |-> {}, notes |-> "", drawings |-> <<>>,
            annotations |-> <<>>, clips |-> <<>>, primaryVideoFileName |-> "null"]

\* JSON.stringify(data, null, 2) of an AnalysisData object: the text, modelled
\* by the value JSON.parse reads back from it
JSONStringify(data) ==
  [parses |-> TRUE, has |-> AllFields, notes |-> data.notes,
   drawings |-> [i \in 1..Len(data.drawings) |-> JsonDrawing(data.drawings[i])],
   annotations |-> [i \in 1..Len(data.annotations) |-> JsonAnnotation(data.annotations[i])],
   clips |-> [i \in 1..Len(data.clips) |-> JsonClip(data.clips[i])],
   primaryVideoFileName |-> data.primaryVideoFileName]

\* zip.file(name, content): sets the entry, replacing one of the same name
ZipPut(entries, name, text, blob) ==
  {e \in entries : e.name # name} \cup {[name |-> name, text |-> text, blob |-> blob]}

\* zip.file(name): the entries of that name (none: null)
ZipFile(zip, name) == {e \in zip.entries : e.name = name}

\* archives the user can pick that the tool did not write
BadZip == [readable |-> FALSE, entries |-> {}]
EmptyZip == [readable |-> TRUE, entries |-> {}]
CorruptZip == [readable |-> TRUE, entries |-> ZipPut({}, JsonEntry, NotJson, 0)]
ForeignClip == [id |-> 91, name |-> "a", startTime |-> 1, endTime |-> 5,
                duration |-> ClipDuration, speed |-> ClipSpeed]
ForeignAnnotation == [id |-> 90, time |-> 1, x |-> 0, y |-> 0, text |-> "a",
                      color |-> "#00ff00"]
ForeignData == [notes |-> "n", drawings |-> <<>>, annotations |-> <<ForeignAnnotation>>,
                clips |-> <<ForeignClip>>, primaryVideoFileName |-> "a.mp4"]
NoVideoZip == [readable |-> TRUE,
               entries |-> ZipPut({}, JsonEntry, JSONStringify(ForeignData), 0)]
\* a data record that parses and carries only the notes: {"notes": "n"}
PartialJson == [parses |-> TRUE, has |-> {"notes"}, notes |-> "n", drawings |-> <<>>,
                annotations |-> <<>>, clips |-> <<>>, primaryVideoFileName |-> "null"]
PartialZip == [readable |-> TRUE, entries |-> ZipPut({}, JsonEntry, PartialJson, 0)]
ArchiveInputs == {BadZip, EmptyZip, CorruptZip, NoVideoZip, PartialZip}
NoArchive == [readable |-> FALSE, entries |-> {[name |-> "null", text |-> NotJson, blob |-> 0]}]

(* ----------------------------- state ---------------------------------- *)
(* --------------------------- the canvas ------------------------------- *)
Abs(n) == IF n < 0 THEN -n ELSE n

\* JavaScript ToNumber for the subtraction: null counts as 0
ToNumber(n) == IF n = JsonNull THEN 0 ELSE n

\* the test with the boundary included
IsPaintedInclusive(item, time) ==
  /\ ToNumber(item.time) # NaN
  /\ Abs(ToNumber(item.time) - time) <= PaintWindow

\* Math.abs(item.time - time) < 0.5 (lines 116 and 134); a NaN compares false
IsPainted(item, time) ==
  /\ ToNumber(item.time) # NaN
  /\ Abs(ToNumber(item.time) - time) < PaintWindow

\* a canvas with nothing on it; also: no <canvas> element
BlankCanvas == [drawings |-> {}, annotations |-> {}]

\* redrawCanvas (lines 105-159): clears the canvas and paints the stored
\* drawings and annotations that pass the test; the canvas is recorded as the
\* ids of the painted items
redrawCanvas(ds, as, v) ==
  LET time == OrNum(v.currentTime, 0)
  IN [drawings |-> {ds[i].id : i \in {k \in 1..Len(ds) : IsPainted(ds[k], time)}},
      annotations |-> {as[i].id : i \in {k \in 1..Len(as) : IsPainted(as[k], time)}}]

\* the effect of lines 161-165, run after a render in which the time, the
\* source or the stored items changed: if (videoSrc) redrawCanvas()
Repaint(src, ds, as, v) == IF src # 0 THEN redrawCanvas(ds, as, v) ELSE BlankCanvas

VARIABLES
  videoSrc,             \* useState: object URL of the video (its blob id), 0 = null
  videoFileName,        \* useState
  originalVideoFile,    \* useState: File or NoFile
  isPlaying,            \* useState
  playbackSpeed,        \* useState: the global speed setting
  isClipPlaying,        \* useState
  activeClipId,         \* useState, 0 = null
  videoStateBeforeClip, \* useRef {time, wasPlaying}
  currentMode,          \* useState ToolMode
  brushSize,            \* useState
  isDrawing,            \* useState
  currentPath,          \* useRef: points of the stroke in progress
  notes, drawings, annotations, clips,   \* useState: the session data
  modalConfig,          \* useState ModalConfig
  video,                \* the <video> element behind videoRef
  libs,                 \* window.JSZip / window.saveAs present
  loads,                \* archive loads in flight, by slot
  saving,               \* zip.generateAsync in flight
  downloaded,           \* the archive last handed to saveAs
  nextId,               \* ids handed out by generateId so far
  canvas,               \* the stored items the last repaint put on the <canvas>
  hist,                 \* history: the video and setting when preview was entered
  strokeStart,          \* history: the video time at the pointer-down of the stroke
  origin                \* history: the archives the data and the video were loaded from

vars == <<videoSrc, videoFileName, originalVideoFile, isPlaying,
          playbackSpeed, isClipPlaying, activeClipId, videoStateBeforeClip, currentMode,
          brushSize, isDrawing, currentPath, notes, drawings, annotations, clips,
          modalConfig, video, libs, loads, saving, downloaded, nextId, canvas, hist,
          strokeStart, origin>>

dataVars == <<notes, drawings, annotations, clips>>
fileVars == <<videoSrc, videoFileName, originalVideoFile, video>>
playVars == <<isPlaying, playbackSpeed, isClipPlaying, activeClipId, videoStateBeforeClip>>
toolVars == <<currentMode, brushSize, isDrawing, currentPath>>
envVars == <<libs, downloaded>>

BrushColor == "#00ff00"

NoLoad == [stage |-> "none", archive |-> NoArchive]
NoSave == [archive |-> NoArchive, data |-> NotJson, file |-> NoFile]
NoHist == [src |-> 0, time |-> 0, paused |-> TRUE, rate |-> DefaultSpeed,
           speed |-> DefaultSpeed, endTime |-> 0, replayed |-> FALSE]

NoOrigin == [data |-> NoArchive, video |-> NoArchive]

ClosedModal == [isOpen |-> FALSE, type |-> "alert", title |-> "", message |-> "",
                cb |-> "none", pos |-> [x |-> 0, y |-> 0], color |-> BrushColor]

Init ==
  /\ videoSrc = 0
  /\ videoFileName = "null"
  /\ originalVideoFile = NoFile
  /\ isPlaying = FALSE
  /\ playbackSpeed = DefaultSpeed
  /\ isClipPlaying = FALSE
  /\ activeClipId = 0
  /\ videoStateBeforeClip = [time |-> 0, wasPlaying |-> FALSE]
  /\ currentMode = "point"
  /\ brushSize = DefaultBrushSize
  /\ isDrawing = FALSE
  /\ currentPath = <<>>
  /\ notes = ""
  /\ drawings = <<>>
  /\ annotations = <<>>
  /\ clips = <<>>
  /\ modalConfig = ClosedModal
  /\ video = NoVideo
  /\ libs \in {[JSZip |-> z, saveAs |-> s] : z, s \in BOOLEAN}
  /\ loads = [i \in 1..MaxLoads |-> NoLoad]
  /\ saving = NoSave
  /\ downloaded = NoSave
  /\ nextId = 0
  /\ canvas = BlankCanvas
  /\ hist = NoHist
  /\ strokeStart = 0
  /\ origin = NoOrigin

(* ------------------------- modal helpers ------------------------------ *)
\* the overlay of an open modal covers the page: no pointer input reaches the
\* controls, the canvas or the clip list while it is open
UIEnabled == ~modalConfig.isOpen

showAlert(message) ==
  [isOpen |-> TRUE, type |-> "alert", title |-> "Aviso", message |-> message,
   cb |-> "none", pos |-> [x |-> 0, y |-> 0], color |-> BrushColor]

showConfirm(message, cb) ==
  [isOpen |-> TRUE, type |-> "confirm", title |-> "Confirmacao", message |-> message,
   cb |-> cb, pos |-> [x |-> 0, y |-> 0], color |-> BrushColor]

\* the callback of the point prompt closes over the pointer position and the
\* brush colour of the render that opened it
showPrompt(pos, color) ==
  [isOpen |-> TRUE, type |-> "input", title |-> "Nome do ponto / Clip:", message |-> "",
   cb |-> "point", pos |-> pos, color |-> color]

\* onConfirm / onCancel set isOpen to false; a closed modal renders nothing and
\* every open replaces the whole config, so the closed config is kept in one form
CloseModal(m) == ClosedModal

(* ----------------------- clip playback logic -------------------------- *)
\* playClip, lines 289-295: the state saved for the way back
CaptureStateAlways(playing, saved, v) ==
  [time |-> v.currentTime, wasPlaying |-> ~v.paused]

CaptureState(playing, saved, v) ==
  IF ~playing THEN [time |-> v.currentTime, wasPlaying |-> ~v.paused] ELSE saved

\* playClip, lines 300-303: pause, seek to the clip, take its speed, play
PlayClipVideo(v, clip) ==
  VideoPlay([VideoSeek(VideoPause(v), clip.startTime) EXCEPT !.playbackRate = clip.speed])

\* stopClip, lines 313-324, without the seek back
StopClipVideoNoSeek(v, speed, saved, resume) ==
  LET v2 == [VideoPause(v) EXCEPT !.playbackRate = speed]
  IN IF resume /\ saved.wasPlaying THEN VideoPlay(v2) ELSE v2

\* stopClip, lines 313-324: what it does to the video element
StopClipVideo(v, speed, saved, resume) ==
  LET v2 == [VideoPause(v) EXCEPT !.playbackRate = speed]
      v3 == IF resume THEN VideoSeek(v2, saved.time) ELSE v2
  IN IF resume /\ saved.wasPlaying THEN VideoPlay(v3) ELSE v3

\* stopClip(resume): a no-op without a video element
stopClip(resume) ==
  IF videoSrc = 0
  THEN UNCHANGED <<video, isPlaying, isClipPlaying, activeClipId, hist>>
  ELSE /\ video' = StopClipVideo(video, playbackSpeed, videoStateBeforeClip, resume)
       /\ isPlaying' = IF resume THEN videoStateBeforeClip.wasPlaying ELSE isPlaying
       /\ isClipPlaying' = FALSE
       /\ activeClipId' = 0
       /\ hist' = NoHist

\* playClip(clip): a no-op without a video element
playClip(clip) ==
  IF videoSrc = 0
  THEN UNCHANGED <<video, isPlaying, isClipPlaying, activeClipId, videoStateBeforeClip, hist>>
  ELSE /\ videoStateBeforeClip' = CaptureState(isClipPlaying, videoStateBeforeClip, video)
       /\ isClipPlaying' = TRUE
       /\ activeClipId' = clip.id
       /\ video' = PlayClipVideo(video, clip)
       /\ hist' = IF ~isClipPlaying
                  THEN [src |-> video.src, time |-> video.currentTime,
                        paused |-> video.paused, rate |-> video.playbackRate,
                        speed |-> playbackSpeed, endTime |-> clip.endTime,
                        replayed |-> FALSE]
                  ELSE [hist EXCEPT !.endTime = clip.endTime, !.replayed = TRUE]
       /\ UNCHANGED isPlaying

\* the play/stop button of clip i in the clip list (lines 588-595)
ClipButton(i) ==
  /\ UIEnabled
  /\ i \in 1..Len(clips)
  /\ IF isClipPlaying /\ activeClipId = clips[i].id
     THEN stopClip(TRUE) /\ UNCHANGED videoStateBeforeClip
     ELSE playClip(clips[i])
  /\ UNCHANGED <<videoSrc, videoFileName, originalVideoFile,
                 playbackSpeed, toolVars, dataVars, modalConfig, libs, loads, saving,
                 downloaded, nextId, canvas, strokeStart, origin>>

\* togglePlay (lines 274-284)
togglePlay ==
  IF videoSrc = 0
  THEN UNCHANGED <<video, isPlaying>>
  ELSE IF video.paused
       THEN video' = VideoPlay(video) /\ isPlaying' = TRUE
       ELSE video' = VideoPause(video) /\ isPlaying' = FALSE

\* the transport button: onClick = isClipPlaying ? onStopClip : onPlayPause
TransportButton ==
  /\ UIEnabled
  /\ IF isClipPlaying
     THEN stopClip(TRUE)
     ELSE togglePlay /\ UNCHANGED <<isClipPlaying, activeClipId, hist>>
  /\ UNCHANGED <<videoSrc, videoFileName, originalVideoFile,
                 playbackSpeed, videoStateBeforeClip, toolVars, dataVars, modalConfig,
                 libs, loads, saving, downloaded, nextId, canvas, strokeStart, origin>>

\* the speed select carries disabled={isClipPlaying}
SpeedSelectNeverDisabled == FALSE

SpeedSelectDisabled == isClipPlaying

\* handleSpeedChange (lines 330-335), reached through the speed select
SpeedChange(speed) ==
  /\ UIEnabled
  /\ ~SpeedSelectDisabled
  /\ playbackSpeed' = speed
  /\ video' = IF videoSrc # 0 /\ ~isClipPlaying
              THEN [video EXCEPT !.playbackRate = speed] ELSE video
  /\ UNCHANGED <<videoSrc, videoFileName, originalVideoFile,
                 isPlaying, isClipPlaying, activeClipId, videoStateBeforeClip, toolVars,
                 dataVars, modalConfig, libs, loads, saving, downloaded, nextId, hist,
                 canvas, strokeStart, origin>>

\* the clip the frame loop finds for activeClipId: clips.find(c => c.id === activeClipId)
ActiveClips == {i \in 1..Len(clips) : clips[i].id = activeClipId}

\* the frame loop's test (lines 173-175): the active clip is in the registry
\* and the video has reached its end time
LoopStops ==
  /\ isClipPlaying
  /\ activeClipId # 0
  /\ ActiveClips # {}
  /\ LET i == CHOOSE k \in ActiveClips : \A j \in ActiveClips : k <= j
     IN video.currentTime >= clips[i].endTime

\* one tick of the requestAnimationFrame loop (lines 170-181); its
\* setCurrentTime makes the canvas repaint
Loop ==
  /\ videoSrc # 0
  /\ IF LoopStops
     THEN stopClip(TRUE)
     ELSE UNCHANGED <<video, isPlaying, isClipPlaying, activeClipId, hist>>
  /\ canvas' = Repaint(videoSrc, drawings, annotations, video')
  /\ UNCHANGED <<videoSrc, videoFileName, originalVideoFile, playbackSpeed,
                 videoStateBeforeClip, toolVars, dataVars, modalConfig, libs, loads,
                 saving, downloaded, nextId, strokeStart, origin>>

(* -------------------- the video element's own events ------------------- *)
\* playback advances by one time unit; at the end the element pauses itself
\* and fires ended (onEnded, line 504)
Advance ==
  /\ videoSrc # 0
  /\ ~video.paused
  /\ video.duration # NaN
  /\ LET t == IF video.currentTime < video.duration THEN video.currentTime + 1
              ELSE video.currentTime
     IN IF t >= video.duration
        THEN /\ video' = [video EXCEPT !.currentTime = t, !.paused = TRUE]
             /\ isPlaying' = FALSE
        ELSE /\ video' = [video EXCEPT !.currentTime = t]
             /\ UNCHANGED isPlaying
  /\ UNCHANGED <<videoSrc, videoFileName, originalVideoFile,
                 playbackSpeed, isClipPlaying, activeClipId, videoStateBeforeClip,
                 toolVars, dataVars, modalConfig, libs, loads, saving, downloaded,
                 nextId, hist,
                 canvas, strokeStart, origin>>

\* the metadata of the source arrives: the duration becomes known
\* (onLoadedMetadata, line 503)
LoadedMetadata ==
  /\ videoSrc # 0
  /\ video.duration = NaN
  /\ LET d == MediaDuration(video.src)
     IN video' = [video EXCEPT !.duration = d, !.currentTime = Min(@, d)]
  /\ UNCHANGED <<videoSrc, videoFileName, originalVideoFile, playVars,
                 toolVars, dataVars, modalConfig, libs, loads, saving, downloaded,
                 nextId, hist,
                 canvas, strokeStart, origin>>

(* ------------------------ canvas interaction -------------------------- *)
\* handleStartInteraction (lines 189-232): pointer down on the canvas
StartInteraction(pos) ==
  /\ UIEnabled
  /\ videoSrc # 0
  /\ IF isClipPlaying
     THEN UNCHANGED <<modalConfig, isDrawing, currentPath>>
     ELSE IF currentMode = "point"
          THEN /\ nextId + 2 <= MaxIds
               /\ modalConfig' = showPrompt(pos, BrushColor)
               /\ UNCHANGED <<isDrawing, currentPath>>
          ELSE /\ currentMode = "pen"
               /\ nextId + 1 <= MaxIds
               /\ Len(drawings) < MaxDrawings
               /\ isDrawing' = TRUE
               /\ currentPath' = <<pos>>
               /\ UNCHANGED modalConfig
  /\ UNCHANGED <<fileVars, playVars, currentMode, brushSize,
                 dataVars, libs, loads, saving, downloaded, nextId, hist,
                 canvas, origin>>
  /\ strokeStart' = IF ~isClipPlaying /\ currentMode = "pen"
                    THEN OrNum(video.currentTime, 0) ELSE strokeStart

\* handleMoveInteraction (lines 234-251): pointer move on the canvas
MoveInteraction(pos) ==
  /\ UIEnabled
  /\ videoSrc # 0
  /\ isDrawing /\ currentMode = "pen"
  /\ Len(currentPath) < MaxPath
  /\ currentPath' = Append(currentPath, pos)
  /\ UNCHANGED <<fileVars, playVars, currentMode, brushSize,
                 isDrawing, dataVars, modalConfig, libs, loads, saving, downloaded,
                 nextId, hist,
                 canvas, strokeStart, origin>>

\* the DrawingPath handleEndInteraction appends (lines 257-263)
NewDrawing(id, v, path, color, size) ==
  [id |-> id, time |-> OrNum(v.currentTime, 0), points |-> path, color |-> color,
   size |-> size]

\* handleEndInteraction (lines 253-270): pointer up or pointer leaving the canvas
EndInteraction ==
  /\ UIEnabled
  /\ videoSrc # 0
  /\ isDrawing /\ currentMode = "pen"
  /\ isDrawing' = FALSE
  /\ currentPath' = <<>>
  /\ IF Len(currentPath) > 1
     THEN /\ nextId + 1 <= MaxIds
          /\ nextId' = nextId + 1
          /\ drawings' = Append(drawings,
                 NewDrawing(nextId + 1, video, currentPath, BrushColor, brushSize))
     ELSE UNCHANGED <<nextId, drawings>>
  /\ UNCHANGED <<fileVars, playVars, currentMode, brushSize,
                 notes, annotations, clips, modalConfig, libs, loads, saving, downloaded,
                 hist,
                 origin>>
  /\ strokeStart' = 0
  /\ canvas' = IF Len(currentPath) > 1
               THEN Repaint(videoSrc, drawings', annotations, video) ELSE canvas

\* onModeChange = setCurrentMode (the two tool buttons)
ModeChange(mode) ==
  /\ UIEnabled
  /\ mode # currentMode
  /\ currentMode' = mode
  /\ UNCHANGED <<fileVars, playVars, brushSize, isDrawing,
                 currentPath, dataVars, modalConfig, libs, loads, saving, downloaded,
                 nextId, hist,
                 canvas, strokeStart, origin>>

\* onBrushSizeChange(parseInt(e.target.value)) (part_000 lines 130-137)
BrushSizeChange(text) ==
  /\ UIEnabled
  /\ brushSize' = ParseInt(text)
  /\ brushSize' # brushSize
  /\ UNCHANGED <<fileVars, playVars, currentMode, isDrawing,
                 currentPath, dataVars, modalConfig, libs, loads, saving, downloaded,
                 nextId, hist,
                 canvas, strokeStart, origin>>

\* the notes area: onChange = setNotes (lines 616-621)
NotesChange(text) ==
  /\ UIEnabled
  /\ text # notes
  /\ notes' = text
  /\ UNCHANGED <<fileVars, playVars, toolVars, drawings,
                 annotations, clips, modalConfig, libs, loads, saving, downloaded,
                 nextId, hist,
                 canvas, strokeStart, origin>>

\* keeps all but the annotation created with the clip
AnnotationsKeptLinked(as, clip) ==
  {a \in SeqToSet(as) : ~(a.text = clip.name /\ a.time = clip.startTime)}

\* keeps every annotation
AnnotationsKeptAll(as, clip) == SeqToSet(as)

\* annotations.filter(a => a.text !== clip.name) (line 599): what it keeps
AnnotationsKept(as, clip) == {a \in SeqToSet(as) : a.text # clip.name}

\* the delete button of clip i (lines 596-600)
DeleteClip(i) ==
  /\ UIEnabled
  /\ i \in 1..Len(clips)
  /\ clips' = SelectSeq2(clips, {c \in SeqToSet(clips) : c.id # clips[i].id})
  /\ annotations' = SelectSeq2(annotations, AnnotationsKept(annotations, clips[i]))
  /\ UNCHANGED <<fileVars, playVars, toolVars, notes, drawings,
                 modalConfig, libs, loads, saving, downloaded, nextId, hist,
                 strokeStart, origin>>
  /\ canvas' = Repaint(videoSrc, drawings, annotations', video)

(* ----------------------- point prompt and dialogs --------------------- *)
\* the Annotation the prompt callback appends (lines 207-214)
NewAnnotation(id, text, v, pos, color) ==
  [id |-> id, time |-> OrNum(v.currentTime, 0), x |-> pos.x, y |-> pos.y,
   text |-> text, color |-> color]

\* the clip without the clamp to the video's duration
NewClipNoClamp(id, text, v) ==
  [id |-> id, name |-> text, startTime |-> OrNum(v.currentTime, 0),
   endTime |-> OrNum(v.currentTime, 0) + ClipWindow,
   duration |-> ClipDuration, speed |-> ClipSpeed]

\* the Clip the prompt callback appends (lines 218-225):
\* endTime = Math.min(time + 2, video.duration || time + 2)
NewClip(id, text, v) ==
  LET time == OrNum(v.currentTime, 0)
  IN [id |-> id, name |-> text, startTime |-> time,
      endTime |-> Min(time + ClipWindow, OrNum(v.duration, time + ClipWindow)),
      duration |-> ClipDuration, speed |-> ClipSpeed]

\* handleNewAnalysis / handleClearAll: the confirmation dialog opens
NewAnalysis ==
  /\ UIEnabled
  /\ modalConfig' = showConfirm(MsgNewAnalysis, "new")
  /\ UNCHANGED <<fileVars, playVars, toolVars, dataVars, libs,
                 loads, saving, downloaded, nextId, hist,
                 canvas, strokeStart, origin>>

ClearAll ==
  /\ UIEnabled
  /\ modalConfig' = showConfirm(MsgClearAll, "clear")
  /\ UNCHANGED <<fileVars, playVars, toolVars, dataVars, libs,
                 loads, saving, downloaded, nextId, hist,
                 canvas, strokeStart, origin>>

\* the Confirmar button of the modal (Modal lines 22-24), with the input value
\* val for a prompt; runs the onConfirm the modal was opened with
ModalConfirm(val) ==
  /\ modalConfig.isOpen
  /\ modalConfig' = CloseModal(modalConfig)
  /\ CASE modalConfig.cb = "point" ->
            \* showPrompt: if (val) onConfirm(val)  (lines 85-88, 203-227)
            /\ IF val # ""
               THEN /\ nextId' = nextId + 2
                    /\ annotations' = Append(annotations,
                          NewAnnotation(nextId + 1, val, video, modalConfig.pos,
                                        modalConfig.color))
                    /\ clips' = Append(clips, NewClip(nextId + 2, val, video))
               ELSE UNCHANGED <<nextId, annotations, clips>>
            /\ UNCHANGED <<fileVars, isPlaying, notes, drawings>>
       [] modalConfig.cb = "new" ->
            \* handleNewAnalysis (lines 411-421)
            /\ val = ""
            /\ videoSrc' = 0
            /\ video' = RenderVideo(0)
            /\ videoFileName' = "null"
            /\ clips' = <<>>
            /\ annotations' = <<>>
            /\ drawings' = <<>>
            /\ notes' = ""
            /\ originalVideoFile' = NoFile
            /\ isPlaying' = FALSE
            /\ UNCHANGED nextId
       [] modalConfig.cb = "clear" ->
            \* handleClearAll (lines 425-429)
            /\ val = ""
            /\ clips' = <<>>
            /\ annotations' = <<>>
            /\ drawings' = <<>>
            /\ UNCHANGED <<fileVars, isPlaying, notes, nextId>>
       [] OTHER ->
            \* an alert: onConfirm only closes it (line 60)
            /\ val = ""
            /\ UNCHANGED <<fileVars, isPlaying, dataVars, nextId>>
  /\ UNCHANGED <<playbackSpeed, isClipPlaying, activeClipId,
                 videoStateBeforeClip, toolVars, libs, loads, saving, downloaded, hist,
                 strokeStart>>
  /\ canvas' = IF modalConfig.cb \in {"point", "new", "clear"} /\ ~(modalConfig.cb = "point" /\ val = "")
               THEN Repaint(videoSrc', drawings', annotations', video') ELSE canvas
  /\ origin' = IF modalConfig.cb = "new" THEN NoOrigin
               ELSE IF modalConfig.cb = "clear" THEN [origin EXCEPT !.data = NoArchive]
               ELSE origin

\* the Cancelar / X button of the modal: onCancel only closes it
ModalCancel ==
  /\ modalConfig.isOpen
  /\ modalConfig.type # "alert"
  /\ modalConfig' = CloseModal(modalConfig)
  /\ UNCHANGED <<fileVars, playVars, toolVars, dataVars, libs,
                 loads, saving, downloaded, nextId, hist,
                 canvas, strokeStart, origin>>

(* ------------------------------ files --------------------------------- *)
\* handleVideoUpload (lines 339-351); the input is rendered only without a video
VideoUpload(file) ==
  /\ UIEnabled
  /\ videoSrc = 0
  /\ videoSrc' = file.blob
  /\ video' = RenderVideo(file.blob)
  /\ videoFileName' = file.name
  /\ originalVideoFile' = file
  /\ clips' = <<>>
  /\ annotations' = <<>>
  /\ drawings' = <<>>
  /\ notes' = ""
  /\ UNCHANGED <<playVars, toolVars, modalConfig, libs, loads,
                 saving, downloaded, nextId, hist,
                 strokeStart>>
  /\ canvas' = Repaint(videoSrc', drawings', annotations', video')
  /\ origin' = NoOrigin

\* the AnalysisData object handleSaveAnalysis builds (lines 360-366)
SaveData ==
  [notes |-> notes, drawings |-> drawings, annotations |-> annotations, clips |-> clips,
   primaryVideoFileName |-> OrStr(videoFileName, DefaultVideoName)]

\* the zip handleSaveAnalysis fills (lines 359-369)
SaveZip(data, file) ==
  [readable |-> TRUE,
   entries |-> ZipPut(ZipPut({}, JsonEntry, JSONStringify(data), 0),
                      data.primaryVideoFileName, NotJson, file.blob)]

\* the guard of handleSaveAnalysis (line 354)
CanSave == libs.JSZip /\ libs.saveAs /\ originalVideoFile # NoFile

\* handleSaveAnalysis (lines 353-376); the button carries disabled={!videoSrc}
SaveAnalysis ==
  /\ UIEnabled
  /\ videoSrc # 0
  /\ saving = NoSave
  /\ IF ~CanSave
     THEN modalConfig' = showAlert(MsgLibMissing) /\ UNCHANGED saving
     ELSE /\ saving' = [archive |-> SaveZip(SaveData, originalVideoFile),
                        data |-> SaveData, file |-> originalVideoFile]
          /\ UNCHANGED modalConfig
  /\ UNCHANGED <<fileVars, playVars, toolVars, dataVars, libs,
                 loads, downloaded, nextId, hist,
                 canvas, strokeStart, origin>>

\* zip.generateAsync resolves: saveAs hands the archive to the user (lines 371-375)
SaveDone ==
  /\ saving # NoSave
  /\ downloaded' = saving
  /\ saving' = NoSave
  /\ modalConfig' = showAlert(MsgSaved)
  /\ UNCHANGED <<fileVars, playVars, toolVars, dataVars, libs,
                 loads, nextId, hist,
                 canvas, strokeStart, origin>>

\* the archives the user can pick for a load
LoadChoices ==
  ArchiveInputs \cup (IF downloaded = NoSave THEN {} ELSE {downloaded.archive})

\* the guard of handleLoadAnalysis (line 380): a file and the zip library
CanLoad == libs.JSZip

\* handleLoadAnalysis (lines 378-382); the input is rendered only without a video
LoadAnalysis(file) ==
  /\ UIEnabled
  /\ videoSrc = 0
  /\ IF ~CanLoad
     THEN UNCHANGED loads
     ELSE \E i \in 1..MaxLoads :
            /\ loads[i] = NoLoad
            /\ \A j \in 1..(i - 1) : loads[j] # NoLoad
            /\ loads' = [loads EXCEPT ![i] = [stage |-> "zip", archive |-> file]]
  /\ UNCHANGED <<fileVars, playVars, toolVars, dataVars,
                 modalConfig, libs, saving, downloaded, nextId, hist,
                 canvas, strokeStart, origin>>

\* JSZip.loadAsync settles (lines 382-383, 407): an unreadable file rejects; a
\* zip without the data entry makes zip.file(...) null, the callback throws and
\* the same catch runs
LoadZipDone(i) ==
  /\ loads[i].stage = "zip"
  /\ IF loads[i].archive.readable /\ ZipFile(loads[i].archive, JsonEntry) # {}
     THEN /\ loads' = [loads EXCEPT ![i].stage = "json"]
          /\ UNCHANGED modalConfig
     ELSE /\ loads' = [loads EXCEPT ![i] = NoLoad]
          /\ modalConfig' = showAlert(MsgInvalidZip)
  /\ UNCHANGED <<fileVars, playVars, toolVars, dataVars, libs,
                 saving, downloaded, nextId, hist,
                 canvas, strokeStart, origin>>

\* the text of the data entry
JsonOf(zip) == (CHOOSE e \in ZipFile(zip, JsonEntry) : TRUE).text

\* JSON.parse succeeds
ParsesAlways(json) == TRUE

Parses(json) == json.parses

\* data.field || default (lines 386-389)
FieldOr(json, field, value, default) == IF field \in json.has THEN value ELSE default

\* line 393 without the look-up in the zip
HasVideoNameOnly(zip, json) == OrStr(json.primaryVideoFileName, "null") # "null"

\* line 393: the record names a video and the zip holds that entry
HasVideo(zip, json) ==
  /\ OrStr(json.primaryVideoFileName, "null") # "null"
  /\ ZipFile(zip, json.primaryVideoFileName) # {}

\* the data entry has been read as a string (lines 383-405)
LoadJsonDone(i) ==
  /\ loads[i].stage = "json"
  /\ LET zip == loads[i].archive
         json == JsonOf(zip)
     IN IF ~Parses(json)
        THEN /\ modalConfig' = showAlert(MsgCorrupt)
             /\ loads' = [loads EXCEPT ![i] = NoLoad]
             /\ UNCHANGED <<dataVars, videoFileName>>
        ELSE /\ notes' = OrStr(FieldOr(json, "notes", json.notes, ""), "")
             /\ drawings' = FieldOr(json, "drawings", json.drawings, <<>>)
             /\ annotations' = FieldOr(json, "annotations", json.annotations, <<>>)
             /\ clips' = FieldOr(json, "clips", json.clips, <<>>)
             /\ videoFileName' = json.primaryVideoFileName
             /\ IF HasVideo(zip, json)
                THEN /\ loads' = [loads EXCEPT ![i].stage = "blob"]
                     /\ UNCHANGED modalConfig
                ELSE /\ loads' = [loads EXCEPT ![i] = NoLoad]
                     /\ modalConfig' = showAlert(MsgNoVideo)
  /\ UNCHANGED <<videoSrc, originalVideoFile, video, playVars,
                 toolVars, libs, saving, downloaded, nextId, hist,
                 strokeStart>>
  /\ canvas' = IF Parses(JsonOf(loads[i].archive))
               THEN Repaint(videoSrc, drawings', annotations', video) ELSE canvas
  /\ origin' = IF Parses(JsonOf(loads[i].archive))
               THEN [origin EXCEPT !.data = loads[i].archive] ELSE origin

\* the video entry has been read as a blob (lines 394-399)
LoadBlobDone(i) ==
  /\ loads[i].stage = "blob"
  /\ LET zip == loads[i].archive
         name == JsonOf(zip).primaryVideoFileName
         blob == (CHOOSE e \in ZipFile(zip, name) : TRUE).blob
     IN /\ originalVideoFile' = [name |-> name, blob |-> blob]
        /\ videoSrc' = blob
        /\ video' = RenderVideo(blob)
  /\ modalConfig' = showAlert(MsgLoaded)
  /\ loads' = [loads EXCEPT ![i] = NoLoad]
  /\ UNCHANGED <<videoFileName, playVars, toolVars, dataVars,
                 libs, saving, downloaded, nextId, hist,
                 strokeStart>>
  /\ canvas' = Repaint(videoSrc', drawings, annotations, video')
  /\ origin' = [origin EXCEPT !.video = loads[i].archive]

(* -------------------------- specification ----------------------------- *)
Next ==
  \/ \E i \in 1..MaxIds : ClipButton(i)
  \/ TransportButton
  \/ \E s \in SpeedOptions : SpeedChange(s)
  \/ Loop
  \/ Advance
  \/ LoadedMetadata
  \/ \E p \in Positions : StartInteraction(p)
  \/ \E p \in Positions : MoveInteraction(p)
  \/ EndInteraction
  \/ \E m \in {"point", "pen"} : ModeChange(m)
  \/ \E t \in BrushInputs : BrushSizeChange(t)
  \/ \E t \in NoteTexts : NotesChange(t)
  \/ \E i \in 1..MaxIds : DeleteClip(i)
  \/ NewAnalysis
  \/ ClearAll
  \/ \E val \in Names \cup {""} : ModalConfirm(val)
  \/ ModalCancel
  \/ \E f \in VideoFiles : VideoUpload(f)
  \/ SaveAnalysis
  \/ SaveDone
  \/ \E f \in LoadChoices : LoadAnalysis(f)
  \/ \E i \in 1..MaxLoads : LoadZipDone(i)
  \/ \E i \in 1..MaxLoads : LoadJsonDone(i)
  \/ \E i \in 1..MaxLoads : LoadBlobDone(i)

Spec == Init /\ [][Next]_vars

\* the playback machine with the annotation tools, without archives
NextPlay ==
  \/ \E i \in 1..MaxIds : ClipButton(i)
  \/ TransportButton
  \/ \E s \in SpeedOptions : SpeedChange(s)
  \/ Loop
  \/ Advance
  \/ LoadedMetadata
  \/ \E p \in Positions : StartInteraction(p)
  \/ \E i \in 1..MaxIds : DeleteClip(i)
  \/ NewAnalysis
  \/ ClearAll
  \/ \E val \in {"a", ""} : ModalConfirm(val)
  \/ ModalCancel
  \/ \E f \in VideoFiles : VideoUpload(f)

InitPlay == Init /\ libs = [JSZip |-> TRUE, saveAs |-> TRUE]

SpecPlay == InitPlay /\ [][NextPlay]_vars

\* the video file used in the archive runs
ArchiveVideos == {f \in VideoFiles : f.name = "a.mp4"}

\* no archive load is in flight
NoLoadPending == \A i \in 1..MaxLoads : loads[i] = NoLoad

\* the session is edited until it is saved; after the one save it is only
\* reset and loaded
Editing == saving = NoSave /\ downloaded = NoSave

\* the archive round trip with the annotation tools, without playback and
\* with one load at a time
NextArchive ==
  \/ LoadedMetadata
  \/ Editing /\ \E p \in Positions : StartInteraction(p)
  \/ Editing /\ \E p \in Positions : MoveInteraction(p)
  \/ Editing /\ EndInteraction
  \/ Editing /\ \E m \in {"point", "pen"} : ModeChange(m)
  \/ Editing /\ \E t \in BrushInputs : BrushSizeChange(t)
  \/ Editing /\ \E t \in NoteTexts : NotesChange(t)
  \/ NewAnalysis
  \/ \E val \in {"a", ""} : ModalConfirm(val)
  \/ ModalCancel
  \/ \E f \in ArchiveVideos : VideoUpload(f)
  \/ Editing /\ SaveAnalysis
  \/ SaveDone
  \/ NoLoadPending /\ \E f \in LoadChoices : LoadAnalysis(f)
  \/ \E i \in 1..MaxLoads : LoadZipDone(i)
  \/ \E i \in 1..MaxLoads : LoadJsonDone(i)
  \/ \E i \in 1..MaxLoads : LoadBlobDone(i)

SpecArchive == Init /\ [][NextArchive]_vars

\* loading archives, also several at once, into a session that holds notes
\* or the data of an earlier load; without the canvas tools
NextLoad ==
  \/ LoadedMetadata
  \/ Editing /\ \E t \in NoteTexts : NotesChange(t)
  \/ NewAnalysis
  \/ ModalConfirm("")
  \/ ModalCancel
  \/ \E f \in ArchiveVideos : VideoUpload(f)
  \/ Editing /\ SaveAnalysis
  \/ SaveDone
  \/ \E f \in LoadChoices : LoadAnalysis(f)
  \/ \E i \in 1..MaxLoads : LoadZipDone(i)
  \/ \E i \in 1..MaxLoads : LoadJsonDone(i)
  \/ \E i \in 1..MaxLoads : LoadBlobDone(i)

SpecLoad == Init /\ [][NextLoad]_vars

\* the video file used in the annotation runs
EditVideos == {f \in VideoFiles : f.name = "s.mp4"}

\* annotating a playing video: the canvas tools, the clip list and playback
NextEdit ==
  \/ \E f \in EditVideos : VideoUpload(f)
  \/ LoadedMetadata
  \/ TransportButton
  \/ Advance
  \/ Loop
  \/ \E i \in 1..MaxIds : ClipButton(i)
  \/ \E m \in {"point", "pen"} : ModeChange(m)
  \/ \E p \in Positions : StartInteraction(p)
  \/ \E p \in Positions : MoveInteraction(p)
  \/ EndInteraction
  \/ \E val \in Names \cup {""} : ModalConfirm(val)
  \/ ModalCancel
  \/ \E i \in 1..MaxIds : DeleteClip(i)
  \/ ClearAll

SpecEdit == InitPlay /\ [][NextEdit]_vars

\* the canvas tools and the clip list on a video that plays, without clip
\* preview
NextAnnotate ==
  \/ \E f \in EditVideos : VideoUpload(f)
  \/ LoadedMetadata
  \/ TransportButton
  \/ Advance
  \/ Loop
  \/ \E m \in {"point", "pen"} : ModeChange(m)
  \/ \E p \in Positions : StartInteraction(p)
  \/ \E p \in Positions : MoveInteraction(p)
  \/ EndInteraction
  \/ \E val \in {"a", ""} : ModalConfirm(val)
  \/ ModalCancel
  \/ \E i \in 1..MaxIds : DeleteClip(i)
  \/ ClearAll

SpecAnnotate == InitPlay /\ [][NextAnnotate]_vars

\* points and their clips: placing, deleting and clearing them on a video
\* that plays, with the pen tool
NextPoints ==
  \/ \E f \in EditVideos : VideoUpload(f)
  \/ LoadedMetadata
  \/ TransportButton
  \/ Advance
  \/ \E m \in {"point", "pen"} : ModeChange(m)
  \/ \E p \in Positions : StartInteraction(p)
  \/ \E p \in Positions : MoveInteraction(p)
  \/ EndInteraction
  \/ \E val \in Names \cup {""} : ModalConfirm(val)
  \/ ModalCancel
  \/ \E i \in 1..MaxIds : DeleteClip(i)
  \/ ClearAll

SpecPoints == InitPlay /\ [][NextPoints]_vars

(* ============================ claims ================================== *)
\* a step that leaves clip preview: the ClipPlaying -> Idle transition
LeavesPreview == isClipPlaying /\ ~isClipPlaying'

\* the preview is left on the video it was entered on, and the time saved at
\* entry is a position of that video
SameVideo == video.src = hist.src /\ hist.time <= MediaDuration(hist.src)

\* C1: clip playback round trip. When preview was entered from Idle with the
\* video paused at time T0 (hist.time), the step that leaves preview - stopClip
\* with resume, from the transport button, the clip's button or the frame loop -
\* puts the same video back at T0, paused, with isPlaying false, whatever the
\* clip's start time, end time and speed.
C1_RoundTrip ==
  [][(LeavesPreview /\ hist.paused /\ SameVideo)
       => (video'.currentTime = hist.time /\ video'.paused /\ ~isPlaying'
           /\ activeClipId' = 0)]_vars

\* a preview entered from a paused video at T0 > 0 has moved the video
\* elsewhere and can now be stopped
C1_Witness ==
  /\ isClipPlaying /\ hist.paused /\ hist.time > 0
  /\ video.currentTime # hist.time /\ SameVideo
  /\ ENABLED TransportButton

\* C2: the saved state is captured only on the Idle -> ClipPlaying edge. When a
\* second playClip ran inside the preview (hist.replayed), leaving the preview
\* seeks to the time and restores the paused/playing flag seen before the first
\* playClip.
C2_FirstCaptureWins ==
  [][(LeavesPreview /\ hist.replayed /\ SameVideo)
       => (video'.currentTime = hist.time /\ video'.paused = hist.paused)]_vars

\* a second clip was started inside the preview of a video that was paused at
\* a time the preview has since left
C2_Witness ==
  /\ isClipPlaying /\ hist.replayed /\ hist.paused
  /\ SameVideo /\ video.currentTime # hist.time
  /\ Len(clips) >= 2

\* C3 (as claimed): whenever the machine is in ClipPlaying and the video's time
\* has reached the end time of the clip that was started, the next tick of the
\* frame loop leaves the preview.
C3_AutoStop ==
  (isClipPlaying /\ videoSrc # 0 /\ video.src = hist.src
     /\ video.currentTime >= hist.endTime)
    => ENABLED (Loop /\ ~isClipPlaying')

\* the point the prompt callback must add for the name n, with d the duration
\* the end time is clamped to
PointCreated(n, d) ==
  LET t == video.currentTime IN
  /\ annotations' = Append(annotations, annotations'[Len(annotations')])
  /\ clips' = Append(clips, clips'[Len(clips')])
  /\ annotations'[Len(annotations')].text = n
  /\ annotations'[Len(annotations')].time = t
  /\ clips'[Len(clips')].name = n
  /\ clips'[Len(clips')].startTime = t
  /\ clips'[Len(clips')].duration = ClipDuration
  /\ clips'[Len(clips')].speed = ClipSpeed
  /\ clips'[Len(clips')].endTime = Min(t + ClipWindow, d)

PromptOpen == modalConfig.isOpen /\ modalConfig.cb = "point"

\* C4 (as claimed): confirming the prompt with a name at video time t appends
\* one annotation and one clip with endTime = min(t + 2 s, the video's duration).
C4_ClipClampedToVideo ==
  PromptOpen =>
    \A n \in Names :
      /\ ENABLED ModalConfirm(n)
      /\ ~ENABLED (ModalConfirm(n) /\ ~PointCreated(n, MediaDuration(video.src)))

\* C4 (amended): the clamp uses the duration the video element reports; while
\* it reports none (metadata not loaded: duration || time + 2) endTime = t + 2 s.
C4_ClipClampedToReported ==
  PromptOpen =>
    \A n \in Names :
      /\ ENABLED ModalConfirm(n)
      /\ ~ENABLED (ModalConfirm(n) /\
            ~PointCreated(n, IF video.duration = NaN
                             THEN video.currentTime + ClipWindow
                             ELSE video.duration))

\* a point was created so late in a video of known duration that its clip
\* ends with the video, with its annotation beside it
C4_Witness ==
  /\ video.duration # NaN
  /\ \E i \in 1..Len(clips) :
       /\ clips[i].endTime = video.duration
       /\ clips[i].endTime < clips[i].startTime + ClipWindow
       /\ clips[i].startTime > 0
       /\ \E j \in 1..Len(annotations) :
            annotations[j].text = clips[i].name /\ annotations[j].time = clips[i].startTime

\* a request from the speed select
SpeedRequest == \E s \in SpeedOptions : SpeedChange(s)

\* C5: in ClipPlaying no request from the speed select changes the video's rate
\* or the global speed setting, and the rate set on leaving the preview is the
\* speed that was selected when the preview was entered.
C5_SpeedRequestIgnored ==
  /\ [](isClipPlaying =>
          ~ENABLED (SpeedRequest /\ (playbackSpeed' # playbackSpeed \/ video' # video)))
  /\ [][LeavesPreview => video'.playbackRate = hist.speed]_vars

\* a preview runs at the clip's speed while another speed is selected
C5_Witness ==
  /\ isClipPlaying /\ videoSrc # 0
  /\ playbackSpeed # DefaultSpeed
  /\ video.playbackRate = ClipSpeed
  /\ hist.speed = playbackSpeed

\* C6 (as claimed): after every ClipPlaying -> Idle transition the video's rate
\* is the rate it had just before the preview was entered, and the video is
\* paused unless the saved state says it was playing.
C6_RateRestored ==
  [][LeavesPreview =>
       (/\ video'.playbackRate = hist.rate
        /\ (video'.paused \/ videoStateBeforeClip.wasPlaying))]_vars

\* the session state an archive load may touch
sessionVars == <<notes, drawings, annotations, clips, videoFileName, originalVideoFile,
                 videoSrc, video>>

\* load i works on the archive the last save produced
LoadsSaved(i) == downloaded # NoSave /\ loads[i].archive = downloaded.archive

\* C7 (as claimed): archive round trip. A load of the archive that save
\* produced finds the container readable; the step that applies its data record
\* sets notes, drawings, annotations and clips to the saved ones, field for
\* field and in order, and the file name to the saved one; the step that
\* attaches the video attaches the saved binary.
C7_ArchiveRoundTrip ==
  [][\A i \in 1..MaxLoads :
       LoadsSaved(i) =>
         /\ (loads[i].stage = "zip" /\ loads'[i] # loads[i]) => loads'[i].stage = "json"
         /\ (loads[i].stage = "json" /\ loads'[i] # loads[i]) =>
              /\ loads'[i].stage = "blob"
              /\ notes' = downloaded.data.notes
              /\ drawings' = downloaded.data.drawings
              /\ annotations' = downloaded.data.annotations
              /\ clips' = downloaded.data.clips
              /\ videoFileName' = downloaded.data.primaryVideoFileName
         /\ (loads[i].stage = "blob" /\ loads'[i] # loads[i]) =>
              /\ originalVideoFile'.blob = downloaded.file.blob
              /\ originalVideoFile'.name = downloaded.data.primaryVideoFileName
              /\ videoSrc' # 0]_vars

\* C8: a load that fails because the container is unreadable reports "invalid
\* archive", one that fails because the data record does not parse reports
\* "corrupt data", and either leaves notes, drawings, annotations, clips, the
\* file name, the original file and the video source as they were.
C8_FailedLoadKeepsSession ==
  [][\A i \in 1..MaxLoads :
       /\ (loads[i].stage = "zip" /\ ~loads[i].archive.readable /\ loads'[i] # loads[i])
            => (/\ modalConfig' = showAlert(MsgInvalidZip)
                /\ loads'[i] = NoLoad
                /\ UNCHANGED sessionVars)
       /\ (loads[i].stage = "json" /\ ~JsonOf(loads[i].archive).parses
             /\ loads'[i] # loads[i])
            => (/\ modalConfig' = showAlert(MsgCorrupt)
                /\ loads'[i] = NoLoad
                /\ UNCHANGED sessionVars)]_vars

\* a corrupt archive was reported while the session held data
C8_Witness ==
  /\ modalConfig = showAlert(MsgCorrupt)
  /\ clips # <<>> /\ notes # ""

\* C9: when the data record parses and names a video entry the archive lacks,
\* the load reports "video not found", the record's notes, drawings,
\* annotations and clips become the session's, and the load sets neither the
\* video source nor the original file, and leaves no step pending.
C9_MissingVideoKeepsData ==
  [][\A i \in 1..MaxLoads :
       (/\ loads[i].stage = "json"
        /\ JsonOf(loads[i].archive).parses
        /\ JsonOf(loads[i].archive).has = AllFields
        /\ JsonOf(loads[i].archive).primaryVideoFileName \notin {"", "null"}
        /\ ZipFile(loads[i].archive, JsonOf(loads[i].archive).primaryVideoFileName) = {}
        /\ loads'[i] # loads[i])
       => (/\ modalConfig' = showAlert(MsgNoVideo)
           /\ notes' = JsonOf(loads[i].archive).notes
           /\ drawings' = JsonOf(loads[i].archive).drawings
           /\ annotations' = JsonOf(loads[i].archive).annotations
           /\ clips' = JsonOf(loads[i].archive).clips
           /\ loads'[i] = NoLoad
           /\ UNCHANGED <<videoSrc, originalVideoFile, video>>)]_vars

\* the missing video was reported, the record's data is in the session and no
\* video is attached
C9_Witness ==
  /\ modalConfig = showAlert(MsgNoVideo)
  /\ clips = ForeignData.clips /\ annotations = ForeignData.annotations
  /\ notes = ForeignData.notes
  /\ videoSrc = 0 /\ originalVideoFile = NoFile

\* an alert is on screen after the step and the session is as it was
AlertedUnchanged ==
  /\ modalConfig'.isOpen /\ modalConfig'.type = "alert"
  /\ UNCHANGED <<sessionVars, loads, saving, downloaded>>

\* C10 (as claimed): without the compression library every save request and
\* every load request ends in an error alert and changes nothing else.
C10_MissingLibraryReported ==
  ~libs.JSZip =>
    /\ ~ENABLED (SaveAnalysis /\ ~AlertedUnchanged)
    /\ \A f \in LoadChoices : ~ENABLED (LoadAnalysis(f) /\ ~AlertedUnchanged)

\* load i applies a data record that parses
AppliesRecord(i) ==
  /\ loads[i].stage = "json"
  /\ JsonOf(loads[i].archive).parses
  /\ loads'[i] # loads[i]

\* the fields missing from the record load i reads
Missing(i) == AllFields \ JsonOf(loads[i].archive).has

\* C14 (as claimed): after a load has parsed a data record, every field the
\* record lacks has its empty default in the session: notes and the video file
\* name are the empty string, drawings, annotations and clips the empty sequence.
C14_MissingFieldsDefault ==
  [][\A i \in 1..MaxLoads :
       AppliesRecord(i) =>
         /\ "notes" \in Missing(i) => notes' = ""
         /\ "primaryVideoFileName" \in Missing(i) => videoFileName' = ""
         /\ "drawings" \in Missing(i) => drawings' = <<>>
         /\ "annotations" \in Missing(i) => annotations' = <<>>
         /\ "clips" \in Missing(i) => clips' = <<>>]_vars

\* C15 (as claimed): once no load is in flight, the session data and the
\* attached video that came from archive loads came from the same archive.
C15_LoadsCoherent ==
  (NoLoadPending /\ videoSrc # 0 /\ origin.data # NoArchive /\ origin.video # NoArchive)
    => origin.data = origin.video

\* C11 (as claimed): a completed pen stroke appends one DrawingPath, in one
\* step, whose time is the video time at the pointer-down of the stroke, also
\* when the video moved during the stroke; no step changes a stored drawing
\* (the store is only appended to or emptied).
C11_StrokeTimeAtStart ==
  [][/\ Len(drawings') > Len(drawings) =>
          /\ Len(drawings') = Len(drawings) + 1
          /\ drawings'[Len(drawings')].time = strokeStart
          /\ \A i \in 1..Len(drawings) : drawings'[i] = drawings[i]
     /\ Len(drawings') <= Len(drawings) => (drawings' = drawings \/ drawings' = <<>>)]_vars

\* C12: deleting clip c removes exactly the clips with c's id and exactly the
\* annotations whose text is c's name, keeps the others in their order, and
\* leaves drawings and notes as they were.
C12_DeleteClipFrame ==
  \A i \in 1..Len(clips) :
    UIEnabled =>
      /\ ENABLED DeleteClip(i)
      /\ ~ENABLED (DeleteClip(i) /\
            ~(/\ clips' = SelectSeq(clips, LAMBDA k : k.id # clips[i].id)
              /\ annotations' = SelectSeq(annotations, LAMBDA a : a.text # clips[i].name)
              /\ drawings' = drawings
              /\ notes' = notes))

\* two points of one name were placed at different times and the first one's
\* clip was deleted: the second clip is left and both annotations are gone
C12_Witness ==
  /\ Len(clips) = 1 /\ clips[1].id = 4 /\ clips[1].startTime > 0
  /\ annotations = <<>>
  /\ nextId = 4

\* item.time is less than 0.5 s away from t
Near(item, t) == item.time - t < PaintWindow /\ t - item.time < PaintWindow

\* the canvas shows exactly the stored items near t
ShowsNear(cv, ds, as, t) ==
  /\ \A i \in 1..Len(ds) : ds[i].id \in cv.drawings <=> Near(ds[i], t)
  /\ \A i \in 1..Len(as) : as[i].id \in cv.annotations <=> Near(as[i], t)

\* C13: a repaint at current time t paints a drawing or an annotation iff its
\* time is less than 0.5 s from t; an item exactly 0.5 s away is not painted.
\* Stated for the repaint of every frame tick and for every step that changes
\* the canvas.
C13_PaintedIffNear ==
  /\ [](videoSrc # 0 =>
          /\ ENABLED Loop
          /\ ~ENABLED (Loop /\ ~ShowsNear(canvas', drawings', annotations',
                                          video'.currentTime)))
  /\ [][(canvas' # canvas /\ videoSrc' # 0) =>
          ShowsNear(canvas', drawings', annotations', video'.currentTime)]_vars

\* the canvas shows a drawing made at the current time and leaves out an
\* annotation made exactly 0.5 s before
C13_Witness ==
  /\ videoSrc # 0
  /\ canvas.drawings # {}
  /\ \E i \in 1..Len(annotations) :
       /\ video.currentTime - annotations[i].time = PaintWindow
       /\ annotations[i].id \notin canvas.annotations

\* C16 (as claimed): while a clip preview is on, activeClipId names a clip of
\* the registry.
C16_ActiveClipPresent ==
  isClipPlaying => (activeClipId # 0 /\ \E i \in 1..Len(clips) : clips[i].id = activeClipId)

\* C17: every annotation has a clip of its name that starts at its time.
C17_AnnotationHasClip ==
  \A i \in 1..Len(annotations) :
    \E j \in 1..Len(clips) :
      clips[j].name = annotations[i].text /\ clips[j].startTime = annotations[i].time

\* two points of different names were placed and the first one's clip was
\* deleted: the second annotation is left, with its clip
C17_Witness ==
  /\ Len(annotations) = 1 /\ Len(clips) = 1
  /\ annotations[1].id = 3 /\ clips[1].id = 4
  /\ annotations[1].time > 0
  /\ ENABLED DeleteClip(1)

\* C18 (as claimed): no step taken during clip preview appends a drawing or an
\* annotation.
C18_NoAppendInPreview ==
  [][isClipPlaying => (/\ Len(drawings') <= Len(drawings)
                       /\ Len(annotations') <= Len(annotations))]_vars
====
